---- MODULE Spec2Model ----
(***************************************************************************)
(* A model of main_e.py: the two-stage launch-vehicle simulator (Stage,     *)
(* Stage.GetDrag, EqOfM, euler, main).                                      *)
(*                                                                          *)
(* Every number of the program is a Python float / numpy float64, an IEEE   *)
(* 754 binary64 value.  The model keeps that arithmetic: a number is the    *)
(* record [s, e, m] of value (-1)^s * m * 2^e whose significand m is a      *)
(* 53-bit natural held as little-endian limbs of 14 bits, and + - * / and   *)
(* the square root round to nearest, ties to even, as the hardware does.    *)
(* Not modelled: infinities, NaN, subnormals and the sign of zero (the      *)
(* inputs drawn below never produce them; a division by 0.0 outside the     *)
(* constructor, which they never reach either, gives 0.0 here).             *)
(*                                                                          *)
(* The library functions are modelled by what they compute:                 *)
(*   x**2, M**3, M**4    products x*x, (M*M)*M, ((M*M)*M)*M;                *)
(*   x**0.5, np.sqrt     the correctly rounded square root;                 *)
(*   x**1.5              x * sqrt(x);                                       *)
(*   np.arctan2(vy, vx)  the direction [c |-> vx/V, s |-> vy/V] of (vx, vy) *)
(*                       with V = sqrt(vx*vx + vy*vy), which is the pair    *)
(*                       (cos, sin) of the angle; np.cos and np.sin read    *)
(*                       the pair, and an angle compares with 83 degrees by *)
(*                       its cosine.                                        *)
(* These may differ from the C library in the last bits of a result; no     *)
(* property below depends on those bits.                                    *)
(*                                                                          *)
(* The module atmosphere, which main_e.py imports, is not part of the       *)
(* sources: Atmosphere is a table of four bands of the standard atmosphere, *)
(* a pure function defined for every altitude.                              *)
(*                                                                          *)
(* Four specifications: SpecMain is the run of main(); Spec is euler called *)
(* on a range of states, time ranges and vehicles; SpecStage is the         *)
(* constructor and SpecDrag is GetDrag, each called on a range of           *)
(* arguments.                                                               *)
(***************************************************************************)
EXTENDS Integers, Sequences, FiniteSets, TLC

---------------------------------------------------------------------------
(* Naturals of any size: little-endian sequences of limbs, no high zeros.  *)

LimbBits == 14
Base == 2 ^ LimbBits
\* the bits of a binary64 significand
Prec == 53

Min(a, b) == IF a < b THEN a ELSE b
Max(a, b) == IF a > b THEN a ELSE b

\* TRUE, once v has a value: orders the evaluation as the program's
\* statements are ordered
Known(v) == v = v

Limb(x, i) == IF i >= 1 /\ i <= Len(x) THEN x[i] ELSE 0

RECURSIVE BTrim(_)
BTrim(x) ==
    IF Len(x) > 0 /\ x[Len(x)] = 0 THEN BTrim(SubSeq(x, 1, Len(x) - 1)) ELSE x

\* s is the sum of the limbs i and of the carry into them
RECURSIVE BAddFrom(_, _, _, _)
BAddFrom(x, y, i, s) ==
    IF i > Len(x) /\ i > Len(y)
    THEN (IF s = 0 THEN <<>> ELSE <<s>>)
    ELSE <<s % Base>> \o BAddFrom(x, y, i + 1, Limb(x, i + 1) + Limb(y, i + 1) + (s \div Base))

BAdd(x, y) == BAddFrom(x, y, 1, Limb(x, 1) + Limb(y, 1))

\* d is the difference of the limbs i, less the borrow out of the limbs below
RECURSIVE BSubFrom(_, _, _, _)
BSubFrom(x, y, i, d) ==
    IF i > Len(x)
    THEN <<>>
    ELSE <<(d + Base) % Base>>
         \o BSubFrom(x, y, i + 1, Limb(x, i + 1) - Limb(y, i + 1) - (IF d < 0 THEN 1 ELSE 0))

\* x - y for x >= y
BSub(x, y) == BTrim(BSubFrom(x, y, 1, Limb(x, 1) - Limb(y, 1)))

RECURSIVE BCmpFrom(_, _, _)
BCmpFrom(x, y, i) ==
    IF i = 0 THEN 0
    ELSE IF x[i] # y[i] THEN (IF x[i] < y[i] THEN -1 ELSE 1)
    ELSE BCmpFrom(x, y, i - 1)

\* -1, 0, 1 as x <, =, > y
BCmp(x, y) ==
    IF Len(x) # Len(y) THEN (IF Len(x) < Len(y) THEN -1 ELSE 1)
    ELSE BCmpFrom(x, y, Len(x))

\* p is limb i times k, plus the carry into it
RECURSIVE BMulSFrom(_, _, _, _)
BMulSFrom(x, k, i, p) ==
    IF i > Len(x)
    THEN (IF p = 0 THEN <<>> ELSE <<p>>)
    ELSE <<p % Base>> \o BMulSFrom(x, k, i + 1, Limb(x, i + 1) * k + (p \div Base))

\* x * k for a limb k
BMulS(x, k) == BTrim(BMulSFrom(x, k, 1, Limb(x, 1) * k))

\* the sum of the limb products of weight Base^(k-1), for x of at most 4 limbs
BMulCol(x, y, k) ==
    Limb(x, 1) * Limb(y, k) + Limb(x, 2) * Limb(y, k - 1)
    + Limb(x, 3) * Limb(y, k - 2) + Limb(x, 4) * Limb(y, k - 3)

\* x * y for x and y of at most 4 limbs: t1, ..., t7 are the column sums with
\* the carries into them
BMul(x, y) ==
    LET t1 == BMulCol(x, y, 1)
        t2 == BMulCol(x, y, 2) + (t1 \div Base)
        t3 == BMulCol(x, y, 3) + (t2 \div Base)
        t4 == BMulCol(x, y, 4) + (t3 \div Base)
        t5 == BMulCol(x, y, 5) + (t4 \div Base)
        t6 == BMulCol(x, y, 6) + (t5 \div Base)
        t7 == BMulCol(x, y, 7) + (t6 \div Base)
    IN  BTrim(<<t1 % Base, t2 % Base, t3 % Base, t4 % Base, t5 % Base, t6 % Base,
                t7 % Base, t7 \div Base>>)

\* x * 2^k
BShl(x, k) ==
    IF x = <<>> THEN <<>>
    ELSE [i \in 1..(k \div LimbBits) |-> 0]
         \o BTrim([i \in 1..(Len(x) + 1) |->
                      ((Limb(x, i) * (2 ^ (k % LimbBits))) % Base)
                      + (Limb(x, i - 1) \div (2 ^ (LimbBits - (k % LimbBits))))])

\* x div 2^k
BShr(x, k) ==
    BTrim(<<>> \o [i \in 1..Max(0, Len(x) - (k \div LimbBits)) |->
              (x[i + (k \div LimbBits)] \div (2 ^ (k % LimbBits)))
              + ((Limb(x, i + (k \div LimbBits) + 1) % (2 ^ (k % LimbBits)))
                 * (2 ^ (LimbBits - (k % LimbBits))))])

\* whether x mod 2^k # 0
BLowBits(x, k) ==
    \/ \E i \in 1..Min(k \div LimbBits, Len(x)) : x[i] # 0
    \/ Limb(x, (k \div LimbBits) + 1) % (2 ^ (k % LimbBits)) # 0

\* bit i of x, the lowest being bit 0
BBit(x, i) == (Limb(x, (i \div LimbBits) + 1) \div (2 ^ (i % LimbBits))) % 2

\* the number of bits of a limb v
IntLen(v) == Cardinality({k \in 0..(LimbBits - 1) : 2 ^ k <= v})

\* the number of bits of x
BLen(x) == IF x = <<>> THEN 0 ELSE (Len(x) - 1) * LimbBits + IntLen(x[Len(x)])

BOne == <<1>>

\* the quotient digit and its product with ys: the estimate q, with
\* p = ys * q, lowered until p <= cur
RECURSIVE BFix(_, _, _, _)
BFix(cur, ys, q, p) ==
    IF BCmp(p, cur) > 0 THEN BFix(cur, ys, q - 1, BSub(p, ys)) ELSE <<q, p>>

\* long division, limb i of xs the next to bring down: the quotient digit is
\* estimated from the top limbs of the running remainder and of the divisor
RECURSIVE BDivFrom(_, _, _, _, _)
BDivFrom(xs, ys, i, rem, quot) ==
    IF i = 0 THEN <<quot, rem>>
    ELSE LET cur == BTrim(<<xs[i]>> \o rem)
             qe  == Min(Base - 1,
                        (Limb(cur, Len(ys) + 1) * Base + Limb(cur, Len(ys))) \div ys[Len(ys)])
             qp  == BFix(cur, ys, qe, BMulS(ys, qe))
         IN  IF Known(rem) /\ Known(quot) /\ Known(qp)
             THEN BDivFrom(xs, ys, i - 1, BSub(cur, qp[2]), <<qp[1]>> \o quot)
             ELSE <<>>

BDivOut(qr, s) == IF Known(qr) THEN <<BTrim(qr[1]), BShr(qr[2], s)>> ELSE <<>>

\* the division starts below the top Len(ys) - 1 limbs of xs
BDivNorm(xs, ys, s) ==
    BDivOut(BDivFrom(xs, ys, Max(0, Len(xs) - Len(ys) + 1),
                     BTrim(SubSeq(xs, Max(0, Len(xs) - Len(ys) + 1) + 1, Len(xs))), <<>>),
            s)

\* <<x div y, x mod y>> for y # 0, the divisor shifted so that its top limb
\* has its high bit set
BDivMod(x, y) ==
    BDivNorm(BShl(x, LimbBits - IntLen(y[Len(y)])), BShl(y, LimbBits - IntLen(y[Len(y)])),
             LimbBits - IntLen(y[Len(y)]))

BToInt(x) == Limb(x, 1) + Base * Limb(x, 2) + Base * Base * Limb(x, 3)

BFromInt(n) == BTrim(<<n % Base, (n \div Base) % Base, n \div (Base * Base)>>)

\* Newton's iteration for the integer square root, x above the root
RECURSIVE ISqrtNewton(_, _)
RECURSIVE ISqrtNext(_, _, _)
ISqrtNewton(n, x) == ISqrtNext(n, x, (x + (n \div x)) \div 2)

ISqrtNext(n, x, y) == IF y >= x THEN x ELSE ISqrtNewton(n, y)

\* y lowered to the root, for y at or above floor(sqrt(n))
RECURSIVE BSqrtFix(_, _)
BSqrtFix(n, y) ==
    IF Known(y) /\ BCmp(BMul(y, y), n) > 0 THEN BSqrtFix(n, BSub(y, BOne)) ELSE y

\* floor(sqrt(n)) by one step of Newton's iteration from x above the root
BSqrtStep(n, x) ==
    IF Known(x) THEN BSqrtFix(n, BShr(BAdd(x, BDivMod(n, x)[1]), 1)) ELSE <<>>

\* an even number of low bits, leaving at most w
BSqrtLow(n, w) == Max(0, BLen(n) - w) + (Max(0, BLen(n) - w) % 2)

\* floor(sqrt(n)) for 0 < n < 2^28
BSqrtWord(n) == BFromInt(ISqrtNewton(BToInt(n), Base))

\* floor(sqrt(n)) for 0 < n < 2^56: the step starts from the root of the top
\* 28 bits, which is right to half the bits of the root
BSqrtHalf(n) ==
    IF BLen(n) <= 2 * LimbBits THEN BSqrtWord(n)
    ELSE BSqrtStep(n, BShl(BAdd(BSqrtWord(BShr(n, BSqrtLow(n, 2 * LimbBits))), BOne),
                           BSqrtLow(n, 2 * LimbBits) \div 2))

\* floor(sqrt(n)) for n < 2^112
BSqrt(n) ==
    IF n = <<>> THEN <<>>
    ELSE IF BLen(n) <= 4 * LimbBits THEN BSqrtHalf(n)
    ELSE BSqrtStep(n, BShl(BAdd(BSqrtHalf(BShr(n, BSqrtLow(n, 4 * LimbBits))), BOne),
                           BSqrtLow(n, 4 * LimbBits) \div 2))

---------------------------------------------------------------------------
(* IEEE 754 binary64.                                                      *)

F64(s, e, m) == [s |-> s, e |-> e, m |-> m]

FZero == F64(0, 0, <<>>)

IsZero(a) == a.m = <<>>

\* q with the carry of the rounding: 2^53 is 2^52 with the exponent raised
FRoundCarry(s, q, e) ==
    IF BLen(q) > Prec THEN [s |-> s, e |-> e + 1, m |-> BShr(q, 1)]
    ELSE [s |-> s, e |-> e, m |-> q]

FRoundUp(s, q, e, up) ==
    IF up THEN FRoundCarry(s, BAdd(q, BOne), e) ELSE [s |-> s, e |-> e, m |-> q]

\* sh is the number of bits of M beyond the 53 that are kept
FRoundAt(s, M, e, sticky, sh) ==
    IF sh <= 0 THEN [s |-> s, e |-> e + sh, m |-> BShl(M, -sh)]
    ELSE FRoundUp(s, BShr(M, sh), e + sh,
                  /\ BBit(M, sh - 1) = 1
                  /\ (sticky \/ BLowBits(M, sh - 1) \/ BBit(M, sh) = 1))

\* (-1)^s * M * 2^e (and, with sticky, a little more in magnitude), rounded
\* to 53 bits, to nearest, ties to even
FRound(s, M, e, sticky) ==
    IF M = <<>> THEN FZero ELSE FRoundAt(s, M, e, sticky, BLen(M) - Prec)

FNeg(a) == IF IsZero(a) THEN a ELSE [a EXCEPT !.s = 1 - a.s]

FAbs(a) == [a EXCEPT !.s = 0]

\* -1, 0, 1 as |a| <, =, > |b|
MagCmp(a, b) ==
    IF IsZero(a) \/ IsZero(b) THEN (IF IsZero(a) /\ IsZero(b) THEN 0 ELSE IF IsZero(a) THEN -1 ELSE 1)
    ELSE IF a.e # b.e THEN (IF a.e < b.e THEN -1 ELSE 1)
    ELSE BCmp(a.m, b.m)

FCmp(a, b) ==
    IF a.s # b.s THEN (IF a.s = 1 THEN -1 ELSE 1)
    ELSE IF a.s = 0 THEN MagCmp(a, b) ELSE MagCmp(b, a)

FLt(a, b) == FCmp(a, b) < 0
FLe(a, b) == FCmp(a, b) <= 0
FGt(a, b) == FCmp(a, b) > 0

\* the signed sum of P * 2^e and Q * 2^e, c comparing P with Q
FAddDiff(sa, P, sb, Q, e, c) ==
    IF c = 0 THEN FZero
    ELSE IF c > 0 THEN FRound(sa, BSub(P, Q), e, FALSE)
    ELSE FRound(sb, BSub(Q, P), e, FALSE)

FAddMag(sa, P, sb, Q, e) ==
    IF sa = sb THEN FRound(sa, BAdd(P, Q), e, FALSE)
    ELSE FAddDiff(sa, P, sb, Q, e, BCmp(P, Q))

\* a + b: an operand more than 58 binary places below the other is lost in
\* the rounding; otherwise the significands are aligned and added exactly
FAdd(a, b) ==
    IF IsZero(a) THEN b
    ELSE IF IsZero(b) THEN a
    ELSE IF a.e - b.e > Prec + 5 THEN a
    ELSE IF b.e - a.e > Prec + 5 THEN b
    ELSE FAddMag(a.s, BShl(a.m, a.e - Min(a.e, b.e)),
                 b.s, BShl(b.m, b.e - Min(a.e, b.e)), Min(a.e, b.e))

FSub(a, b) == FAdd(a, FNeg(b))

FMul(a, b) ==
    IF IsZero(a) \/ IsZero(b) THEN FZero
    ELSE FRound((a.s + b.s) % 2, BMul(a.m, b.m), a.e + b.e, FALSE)

FDivOut(s, qr, e) == IF Known(qr) THEN FRound(s, qr[1], e, qr[2] # <<>>) ELSE FZero

\* a / b for b # 0
FDiv(a, b) ==
    IF IsZero(a) \/ IsZero(b) THEN FZero
    ELSE FDivOut((a.s + b.s) % 2, BDivMod(BShl(a.m, Prec + 3), b.m), a.e - b.e - (Prec + 3))

FSqrtOut(n, r, e) == IF Known(r) THEN FRound(0, r, e, BCmp(BMul(r, r), n) # 0) ELSE FZero

FSqrtOf(n, e) == FSqrtOut(n, BSqrt(n), e)

\* the shift that leaves an even exponent and a root of 55 bits
FSqrtShift(e) == (Prec + 3) + ((e + Prec + 3) % 2)

\* the square root of a >= 0
FSqrt(a) ==
    IF IsZero(a) THEN FZero
    ELSE FSqrtOf(BShl(a.m, FSqrtShift(a.e)), (a.e - FSqrtShift(a.e)) \div 2)

\* the float of an integer
FInt(n) == FRound(IF n < 0 THEN 1 ELSE 0, BFromInt(IF n < 0 THEN -n ELSE n), 0, FALSE)

\* max(0, ceil(a)) as an integer
FCeilInt(a) ==
    IF IsZero(a) \/ a.s = 1 THEN 0
    ELSE IF a.e >= 0 THEN BToInt(BShl(a.m, a.e))
    ELSE BToInt(BShr(a.m, -a.e)) + (IF BLowBits(a.m, -a.e) THEN 1 ELSE 0)

\* the float a decimal literal n / 10^k denotes
Dec(n, k) == FDiv(FInt(n), FInt(10 ^ k))

FOne == FInt(1)

\* |a - b| <= 2^-40 * |b|: equal but for the rounding of a few operations
Close(a, b) == FLe(FAbs(FSub(a, b)), FMul(FRound(0, BOne, -40, FALSE), FAbs(b)))

---------------------------------------------------------------------------
(* Angles.  The program holds an angle in radians and only ever compares   *)
(* it with another angle or takes its cosine and sine; the model holds the *)
(* angle as that pair [c |-> cos, s |-> sin].                              *)

\* np.deg2rad(90): cos 6.123233995736766e-17, sin 1.0
Deg90 == [c |-> [s |-> 0, e |-> -106, m |-> <<7175, 3153, 8803, 1129>>], s |-> FOne]

\* np.deg2rad(87): cos 0.052335956242943966, sin 0.9986295347545738
Deg87 == [c |-> [s |-> 0, e |-> -57, m |-> <<2337, 9151, 15476, 1714>>],
          s |-> [s |-> 0, e |-> -53, m |-> <<9757, 13387, 3166, 2045>>]]

\* np.deg2rad(83): cos 0.12186934340514749, sin 0.992546151641322
Deg83 == [c |-> [s |-> 0, e |-> -56, m |-> <<8916, 12605, 11588, 1996>>],
          s |-> [s |-> 0, e |-> -53, m |-> <<16011, 5768, 12034, 2032>>]]

\* the angle 0.0
AngleZero == [c |-> FOne, s |-> FZero]

\* the direction of (vx, vy), V its length
Direction(vx, vy, V) ==
    IF IsZero(V) THEN AngleZero ELSE [c |-> FDiv(vx, V), s |-> FDiv(vy, V)]

\* np.arctan2(vy, vx), in (-pi, pi]; arctan2(0, 0) = 0
ArcTan2(vy, vx) == Direction(vx, vy, FSqrt(FAdd(FMul(vx, vx), FMul(vy, vy))))

\* a > b for a in (-pi, pi] and b in (0, pi): the cosine falls on (0, pi)
AngleGt(a, b) ==
    \/ FGt(a.s, FZero) /\ FLt(a.c, b.c)
    \/ IsZero(a.s) /\ FLt(a.c, FZero)

---------------------------------------------------------------------------
(* class Stage                                                             *)

\* 9.81
G0 == F64(0, -49, <<1311, 1966, 11141, 1255>>)

\* Stage.__init__ with the burn time taken from Mp instead of Mf
StageInitMp(Name, Thrust, Cd, A, Isp, Ms, Mf, Mp) ==
    LET ve   == FMul(Isp, G0)
        mdot == FDiv(Thrust, ve)
        tb   == FDiv(Mp, mdot)
    IN  IF IsZero(ve) \/ IsZero(mdot) THEN [raised |-> "ZeroDivisionError"]
        ELSE [Name |-> Name, Thrust |-> Thrust, Cd |-> Cd, A |-> A, Isp |-> Isp,
              Ms |-> Ms, Mf |-> Mf, Mp |-> Mp,
              mdot |-> mdot, tb |-> tb, M |-> FAdd(FAdd(Ms, Mf), Mp)]

\* Stage.__init__: the object, or the exception a float division raises
StageInit(Name, Thrust, Cd, A, Isp, Ms, Mf, Mp) ==
    LET ve   == FMul(Isp, G0)
        mdot == FDiv(Thrust, ve)
        tb   == FDiv(Mf, mdot)
    IN  IF IsZero(ve) \/ IsZero(mdot) THEN [raised |-> "ZeroDivisionError"]
        ELSE [Name |-> Name, Thrust |-> Thrust, Cd |-> Cd, A |-> A, Isp |-> Isp,
              Ms |-> Ms, Mf |-> Mf, Mp |-> Mp,
              mdot |-> mdot, tb |-> tb, M |-> FAdd(FAdd(Ms, Mf), Mp)]

\* the bands of the standard atmosphere: below the altitude top [m], and in
\* the last band above them all, the temperature T [K] and the density rho
\* [kg/m3]
AtmosphereBands ==
    <<\* below 11 km: 288.15 K, 1.225 kg/m3
      [top |-> FInt(11000), T |-> F64(0, -44, <<9830, 6553, 9830, 1152>>),
       rho |-> F64(0, -52, <<6554, 9830, 6553, 1254>>)],
      \* below 20 km: 216.65 K, 0.3639 kg/m3
      [top |-> FInt(20000), T |-> F64(0, -45, <<3277, 13107, 3276, 1733>>),
       rho |-> F64(0, -54, <<11246, 9987, 8755, 1490>>)],
      \* below 47 km: 228.65 K, 0.088 kg/m3
      [top |-> FInt(47000), T |-> F64(0, -45, <<3277, 13107, 3276, 1829>>),
       rho |-> F64(0, -56, <<2490, 2097, 12976, 1441>>)],
      \* above: 270.65 K, 0.0014 kg/m3
      [T |-> F64(0, -44, <<9830, 6553, 9830, 1082>>),
       rho |-> F64(0, -62, <<15047, 14050, 104, 1468>>)]>>

\* atmosphere.Atmosphere(h): temperature and density at altitude h
Atmosphere(h) ==
    IF FLt(h, AtmosphereBands[1].top) THEN AtmosphereBands[1]
    ELSE IF FLt(h, AtmosphereBands[2].top) THEN AtmosphereBands[2]
    ELSE IF FLt(h, AtmosphereBands[3].top) THEN AtmosphereBands[3]
    ELSE AtmosphereBands[4]

\* gamma * R
GammaR == FMul(F64(0, -52, <<2621, 3932, 5898, 1167>>), FInt(287))

\* A = np.sqrt(gamma*R*T)
SoundSpeed(h) == FSqrt(FMul(GammaR, Atmosphere(h).T))

\* M = V/A
MachNumber(h, V) == FDiv(V, SoundSpeed(h))

\* the coefficients of the three fits, highest power first
\* -0.0415, 0.3892, 0.2614, 0.303
SubsonicFit ==
    <<F64(1, -57, <<10355, 13893, 14286, 1359>>),
      F64(0, -54, <<6868, 14234, 2673, 1594>>),
      F64(0, -54, <<10591, 812, 11377, 1070>>),
      F64(0, -54, <<2097, 12976, 1441, 1241>>)>>
\* -0.049, 0.5664, 2.3265, 3.8512, 1.6625
SupersonicFit ==
    <<F64(1, -57, <<3146, 11272, 10354, 1605>>),
      F64(0, -53, <<2674, 4666, 16174, 1159>>),
      F64(0, -51, <<9961, 8388, 2752, 1191>>),
      F64(0, -51, <<6003, 2123, 13343, 1971>>),
      F64(0, -52, <<6554, 9830, 6553, 1702>>)>>
\* -0.0037, 0.0695, 0.4105, 0.9732
HypersonicFit ==
    <<F64(1, -61, <<11692, 16226, 14181, 1939>>),
      F64(0, -56, <<11928, 3145, 11272, 1138>>),
      F64(0, -54, <<786, 11010, 6684, 1681>>),
      F64(0, -53, <<13133, 3643, 1861, 1993>>)>>

Square(M) == FMul(M, M)
Cube(M) == FMul(FMul(M, M), M)

\* -0.0415*M**3 + 0.3892*M**2 - 0.2614*M + 0.303
CdSubsonic(M) ==
    FAdd(FSub(FAdd(FMul(SubsonicFit[1], Cube(M)), FMul(SubsonicFit[2], Square(M))),
              FMul(SubsonicFit[3], M)),
         SubsonicFit[4])

\* -0.049*M**4 + 0.5664*M**3 - 2.3265*M**2 + 3.8512*M - 1.6625
CdSupersonic(M) ==
    FSub(FAdd(FSub(FAdd(FMul(SupersonicFit[1], FMul(Cube(M), M)),
                        FMul(SupersonicFit[2], Cube(M))),
                   FMul(SupersonicFit[3], Square(M))),
              FMul(SupersonicFit[4], M)),
         SupersonicFit[5])

\* -0.0037 * M**3 + 0.0695*M**2 - 0.4105*M + 0.9732
CdHypersonic(M) ==
    FAdd(FSub(FAdd(FMul(HypersonicFit[1], Cube(M)), FMul(HypersonicFit[2], Square(M))),
              FMul(HypersonicFit[3], M)),
         HypersonicFit[4])

\* 0.255
CdFlat == F64(0, -54, <<14418, 5242, 7864, 1044>>)

\* 1.25
Mach125 == F64(0, -52, <<0, 0, 0, 1280>>)
Mach4 == FInt(4)
Mach10 == FInt(10)

\* lines 50-63
DragCoefficient(M) ==
    IF FLe(M, Mach125) THEN CdSubsonic(M)
    ELSE IF FGt(M, Mach125) /\ FLe(M, Mach4) THEN CdSupersonic(M)
    ELSE IF FGt(M, Mach4) /\ FLe(M, Mach10) THEN CdHypersonic(M)
    ELSE CdFlat

\* 0.5
Half == F64(0, -53, <<0, 0, 0, 1024>>)

\* lines 65-66, for the component v of the velocity
DragForce(rho, v, V, A, Cd) == FMul(FMul(FMul(FMul(FMul(Half, rho), v), V), A), Cd)

\* the body of GetDrag once Cd is known
GetDragWith(self, h, V, vx, vy, Cd) ==
    [D    |-> <<DragForce(Atmosphere(h).rho, vx, V, self.A, Cd),
                DragForce(Atmosphere(h).rho, vy, V, self.A, Cd)>>,
     self |-> self]

\* Stage.GetDrag: the returned (Dx, Dy), and self as the call leaves it
GetDrag(self, h, V, vx, vy) ==
    GetDragWith(self, h, V, vx, vy, DragCoefficient(MachNumber(h, V)))

\* the floats written out above are the floats their decimals denote
LiteralsRight ==
    /\ G0 = Dec(981, 2)
    /\ GammaR = FMul(Dec(114, 2), FInt(287))
    /\ SubsonicFit = <<FNeg(Dec(415, 4)), Dec(3892, 4), Dec(2614, 4), Dec(303, 3)>>
    /\ SupersonicFit = <<FNeg(Dec(49, 3)), Dec(5664, 4), Dec(23265, 4), Dec(38512, 4),
                         Dec(16625, 4)>>
    /\ HypersonicFit = <<FNeg(Dec(37, 4)), Dec(695, 4), Dec(4105, 4), Dec(9732, 4)>>
    /\ CdFlat = Dec(255, 3) /\ Mach125 = Dec(125, 2) /\ Half = Dec(5, 1)
    /\ <<AtmosphereBands[1].T, AtmosphereBands[2].T, AtmosphereBands[3].T, AtmosphereBands[4].T>>
       = <<Dec(28815, 2), Dec(21665, 2), Dec(22865, 2), Dec(27065, 2)>>
    /\ <<AtmosphereBands[1].rho, AtmosphereBands[2].rho, AtmosphereBands[3].rho,
         AtmosphereBands[4].rho>>
       = <<Dec(1225, 3), Dec(3639, 4), Dec(88, 3), Dec(14, 4)>>

---------------------------------------------------------------------------
(* EqOfM                                                                   *)

Mu == FMul(FInt(3986), FMul(FInt(10 ^ 5), FInt(10 ^ 6)))
Re == FInt(6378000)
Altitude100 == FInt(100)
Seconds300 == FInt(300)

\* (rx**2 + ry**2)**0.5
Hypot(x, y) == FSqrt(FAdd(FMul(x, x), FMul(y, y)))

\* -mu * r/(rx**2 + ry**2)**1.5 for the component r
Gravity(r, rx, ry) ==
    LET s == FAdd(FMul(rx, rx), FMul(ry, ry))
    IN  FDiv(FMul(FNeg(Mu), r), FMul(s, FSqrt(s)))

\* the stage test with a strict comparison
FirstStageBurnsStrict(t, F9S1) == FLt(t, F9S1.tb)

\* the test that selects stage 1
FirstStageBurns(t, F9S1) == FLe(t, F9S1.tb)

\* the mass with the second stage's total mass in the first-stage branch
VehicleMassSwapped(t, F9S1, F9S2) ==
    IF FirstStageBurns(t, F9S1)
    THEN FSub(F9S2.M, FMul(F9S1.mdot, t))
    ELSE FSub(F9S2.M, FMul(F9S2.mdot, FSub(t, F9S1.tb)))

\* lines 97-102: the mass M
VehicleMass(t, F9S1, F9S2) ==
    IF FirstStageBurns(t, F9S1)
    THEN FSub(F9S1.M, FMul(F9S1.mdot, t))
    ELSE FSub(F9S2.M, FMul(F9S2.mdot, FSub(t, F9S1.tb)))

\* lines 97-102: the thrust magnitude TT
VehicleThrust(t, F9S1, F9S2) ==
    IF FirstStageBurns(t, F9S1) THEN F9S1.Thrust ELSE F9S2.Thrust

\* the thrust angle without the 87 degree branch
ThrustAngleNoKick(t, h, phi, F9S1) ==
    IF FLt(t, FAdd(F9S1.tb, Seconds300)) /\ FGt(h, Altitude100)
    THEN phi
    ELSE Deg90

\* lines 107-116: the thrust angle psi
ThrustAngle(t, h, phi, F9S1) ==
    IF FLt(t, FAdd(F9S1.tb, Seconds300)) /\ FGt(h, Altitude100)
    THEN (IF AngleGt(phi, Deg83) THEN Deg87 ELSE phi)
    ELSE Deg90

\* the stages with the current mass stored into the first stage
StagesBurnt(stages, M) == <<[stages[1] EXCEPT !.M = M], stages[2]>>

\* the stages as a call of EqOfM leaves them: no statement assigns to them
StagesAfter(stages, M) == stages

\* lines 120-145
EqOfMForces(state, t, F9S1, F9S2, R, phi, M, TT, psi, D) ==
    LET Tx == FMul(TT, psi.c)
        Ty == FMul(TT, psi.s)
        ax == FAdd(FSub(FDiv(Tx, M), FDiv(D.D[1], M)), Gravity(state[1], state[1], state[2]))
        ay == FAdd(FSub(FDiv(Ty, M), FDiv(D.D[2], M)), Gravity(state[2], state[1], state[2]))
    IN  [deriv   |-> <<state[3], state[4], ax, ay>>,
         v_state |-> <<Tx, Ty, D.D[1], D.D[2], M, phi>>,
         printed |-> FGt(t, FZero) /\ FLe(FSub(R, Re), FZero),
         stages  |-> StagesAfter(<<D.self, F9S2>>, M)]

\* lines 95-123
EqOfMStage(state, t, F9S1, F9S2, R, phi) ==
    IF Known(R) /\ Known(phi)
    THEN EqOfMForces(state, t, F9S1, F9S2, R, phi,
                     VehicleMass(t, F9S1, F9S2), VehicleThrust(t, F9S1, F9S2),
                     ThrustAngle(t, FSub(R, Re), phi, F9S1),
                     GetDrag(F9S1, FSub(R, Re), Hypot(state[3], state[4]),
                             state[3], state[4]))
    ELSE <<>>

\* EqOfM(STATE, t, stages): the returned derivative and vehicle state,
\* whether the notice was printed, and the stages as the call leaves them
EqOfM(state, t, stages) ==
    EqOfMStage(state, t, stages[1], stages[2],
               Hypot(state[1], state[2]), ArcTan2(state[4], state[3]))

---------------------------------------------------------------------------
(* euler                                                                   *)

\* len(np.arange(t0, Tf, dt))
ArangeLen(t0, Tf, dt) == FCeilInt(FDiv(FSub(Tf, t0), dt))

ZeroRow == <<FZero, FZero, FZero, FZero, FZero, AngleZero>>

VARIABLES pc, args, stages, steps, X, Y, Vx, Vy, T_array, v_states, t, n, notices, ret

locals == <<steps, X, Y, Vx, Vy, T_array, v_states, t, n>>
vars == <<pc, args, stages, steps, X, Y, Vx, Vy, T_array, v_states, t, n, notices, ret>>

NoLocals ==
    /\ steps = 0 /\ n = 0 /\ t = FZero
    /\ X = <<>> /\ Y = <<>> /\ Vx = <<>> /\ Vy = <<>> /\ T_array = <<>> /\ v_states = <<>>

\* lines 156-173
EulerAlloc ==
    /\ pc = "euler"
    /\ steps' = ArangeLen(args.t0, args.Tf, args.dt)
    /\ X' = [i \in 0..steps' |-> IF i = 0 THEN args.STATE0[1] ELSE FZero]
    /\ Y' = [i \in 0..steps' |-> IF i = 0 THEN args.STATE0[2] ELSE FZero]
    /\ Vx' = [i \in 0..steps' |-> IF i = 0 THEN args.STATE0[3] ELSE FZero]
    /\ Vy' = [i \in 0..steps' |-> IF i = 0 THEN args.STATE0[4] ELSE FZero]
    /\ T_array' = [i \in 0..steps' |-> FZero]
    /\ v_states' = [i \in 0..steps' |-> ZeroRow]
    /\ t' = args.t0
    /\ n' = 0
    /\ pc' = "loop"
    /\ UNCHANGED <<args, stages, notices, ret>>

\* lines 177-189: one turn of the loop; the store into X[n + 1] raises
\* IndexError when n + 1 is past the end of the arrays
EulerStep ==
    /\ pc = "loop"
    /\ FLt(t, args.Tf)
    /\ \E S \in {EqOfM(<<X[n], Y[n], Vx[n], Vy[n]>>, t, stages)} :
           /\ notices' = IF S.printed THEN Append(notices, n) ELSE notices
           /\ stages' = S.stages
           /\ IF n + 1 > steps
              THEN /\ pc' = "IndexError"
                   /\ UNCHANGED locals
              ELSE /\ X' = [X EXCEPT ![n + 1] = FAdd(X[n], FMul(args.dt, S.deriv[1]))]
                   /\ Y' = [Y EXCEPT ![n + 1] = FAdd(Y[n], FMul(args.dt, S.deriv[2]))]
                   /\ Vx' = [Vx EXCEPT ![n + 1] = FAdd(Vx[n], FMul(args.dt, S.deriv[3]))]
                   /\ Vy' = [Vy EXCEPT ![n + 1] = FAdd(Vy[n], FMul(args.dt, S.deriv[4]))]
                   /\ v_states' = [v_states EXCEPT ![n] = S.v_state]
                   /\ t' = FAdd(t, args.dt)
                   /\ T_array' = [T_array EXCEPT ![n + 1] = t']
                   /\ n' = n + 1
                   /\ pc' = "loop"
                   /\ UNCHANGED steps
    /\ UNCHANGED <<args, ret>>

\* lines 192-199
EulerReturn ==
    /\ pc = "loop"
    /\ ~FLt(t, args.Tf)
    /\ ret' = [STATEF   |-> [i \in 0..steps |-> <<T_array[i], X[i], Y[i], Vx[i], Vy[i]>>],
               v_states |-> v_states]
    /\ pc' = "returned"
    /\ UNCHANGED <<args, stages, notices, locals>>

---------------------------------------------------------------------------
(* main                                                                    *)

Falcon9S1 ==
    StageInit("Stage 1", FInt(7426000), Dec(3, 1), Dec(1075, 2), FInt(282),
              FInt(27200), FInt(411000), FInt(116000))

Falcon9S2 ==
    StageInit("Stage 2", FInt(934000), Dec(3, 1), Dec(1075, 2), FInt(348),
              FInt(4500), FInt(111500), FInt(0))

\* lines 213-232, up to the call of euler
MainCall ==
    /\ pc = "main"
    /\ stages' = <<Falcon9S1, Falcon9S2>>
    /\ args' = [STATE0 |-> <<FInt(0), FInt(6378000), FInt(0), FInt(0)>>,
                t0 |-> FInt(0), dt |-> Dec(5, 1),
                Tf |-> FAdd(Falcon9S1.tb, FInt(300))]
    /\ pc' = "euler"
    /\ UNCHANGED <<notices, ret, locals>>

InitMain ==
    /\ pc = "main"
    /\ args = <<>>
    /\ stages = <<>>
    /\ notices = <<>>
    /\ ret = <<>>
    /\ NoLocals

NextMain == MainCall \/ EulerAlloc \/ EulerStep \/ EulerReturn

SpecMain == InitMain /\ [][NextMain]_vars

---------------------------------------------------------------------------
(* euler called on a range of inputs                                       *)

\* the longest run of half-second steps
MaxSteps == 7

\* a small two-stage vehicle: stage 1 burns 64 kg/s for exactly 2 s
SmallS1 ==
    StageInit("Stage 1", Dec(16072704, 2), Dec(3, 1), Dec(1075, 2), FInt(256),
              FInt(100), FInt(128), FInt(500))

SmallS2 ==
    StageInit("Stage 2", Dec(2009088, 2), Dec(3, 1), Dec(1075, 2), FInt(256),
              FInt(10), FInt(64), FInt(0))

StagePairs == {<<SmallS1, SmallS2>>, <<Falcon9S1, Falcon9S2>>}

\* at rest on the ground; climbing 1 km up; flying at 45 degrees 1 km up;
\* sinking below the ground
States0 ==
    {<<FInt(0), FInt(6378000), FInt(0), FInt(0)>>,
     <<FInt(0), FInt(6379000), FInt(0), FInt(150)>>,
     <<FInt(0), FInt(6379000), FInt(100), FInt(100)>>,
     <<FInt(0), FInt(6377950), FInt(0), FNeg(FInt(10))>>}

\* (t0, dt, Tf)
TimeRanges ==
    {[t0 |-> FInt(0), dt |-> Dec(5, 1), Tf |-> FMul(FInt(MaxSteps), Dec(5, 1))],
     [t0 |-> FInt(301), dt |-> Dec(5, 1), Tf |-> FInt(303)],
     [t0 |-> FInt(0), dt |-> Dec(3, 1), Tf |-> Dec(9, 1)],
     [t0 |-> Dec(3, 1), dt |-> Dec(1, 2), Tf |-> Dec(31, 2)]}

Init ==
    /\ pc = "euler"
    /\ stages \in StagePairs
    /\ \E S0 \in States0, r \in TimeRanges :
           args = [STATE0 |-> S0, t0 |-> r.t0, dt |-> r.dt, Tf |-> r.Tf]
    /\ notices = <<>>
    /\ ret = <<>>
    /\ NoLocals

Next == EulerAlloc \/ EulerStep \/ EulerReturn

Spec == Init /\ [][Next]_vars

---------------------------------------------------------------------------
(* Stage(...) called on a range of arguments                               *)

Thrusts == {FInt(0), FNeg(FInt(934000)), Dec(16072704, 2), FInt(934000), FInt(7426000)}
Isps == {FNeg(FInt(282)), FInt(0), FInt(256), FInt(282), FInt(348)}
Masses == {FInt(0), FInt(128), FInt(116000), FInt(411000)}

InitStage ==
    /\ pc = "Stage"
    /\ \E T \in Thrusts, I \in Isps, Mf \in Masses, Mp \in Masses, Ms \in {FInt(4500), FInt(27200)} :
           args = [Name |-> "Stage", Thrust |-> T, Cd |-> Dec(3, 1), A |-> Dec(1075, 2),
                   Isp |-> I, Ms |-> Ms, Mf |-> Mf, Mp |-> Mp]
    /\ stages = <<>>
    /\ notices = <<>>
    /\ ret = <<>>
    /\ NoLocals

\* lines 20-34: the constructor returns the object or raises
Construct ==
    /\ pc = "Stage"
    /\ \E obj \in {StageInit(args.Name, args.Thrust, args.Cd, args.A, args.Isp,
                             args.Ms, args.Mf, args.Mp)} :
           /\ ret' = obj
           /\ pc' = IF "raised" \in DOMAIN obj THEN "raised" ELSE "constructed"
    /\ UNCHANGED <<args, stages, notices, locals>>

NextStage == Construct

SpecStage == InitStage /\ [][NextStage]_vars

---------------------------------------------------------------------------
(* GetDrag called on a range of arguments                                  *)

\* the Mach numbers 0, 0.25, ..., 12
MachQuarters == 48

Altitudes == {FInt(0), FInt(15000), FInt(30000)}

InitDrag ==
    /\ pc = "GetDrag"
    /\ \E h \in Altitudes, k \in 0..MachQuarters :
           LET V == FMul(Dec(25 * k, 2), SoundSpeed(h))
           IN  args = [self |-> Falcon9S1, h |-> h, V |-> V, vx |-> FZero, vy |-> V]
    /\ stages = <<>>
    /\ notices = <<>>
    /\ ret = <<>>
    /\ NoLocals

\* lines 37-68: the locals M and Cd at the return, and the returned pair
GetDragCall ==
    /\ pc = "GetDrag"
    /\ \E D \in {GetDrag(args.self, args.h, args.V, args.vx, args.vy)} :
           /\ ret' = [M  |-> MachNumber(args.h, args.V),
                      Cd |-> DragCoefficient(MachNumber(args.h, args.V)),
                      D  |-> D.D]
           /\ stages' = <<D.self>>
    /\ pc' = "GetDragReturned"
    /\ UNCHANGED <<args, notices, locals>>

NextDrag == GetDragCall

SpecDrag == InitDrag /\ [][NextDrag]_vars

---------------------------------------------------------------------------
(* Stage.__init__: properties of SpecStage                                 *)

\* the configuration is one the constructor is to accept: Isp > 0 and a
\* mass flow rate Thrust/(Isp*9.81) > 0
ValidConfiguration ==
    /\ FGt(args.Isp, FZero)
    /\ FGt(FDiv(args.Thrust, FMul(args.Isp, G0)), FZero)

\* C1: a Stage with Isp <= 0 or a mass flow rate <= 0 is refused with an
\* InvalidConfiguration error, and every other Stage is constructed
C1_RefusesInvalidConfiguration ==
    /\ pc = "constructed" => ValidConfiguration
    /\ pc = "raised" => ~ValidConfiguration /\ ret = [raised |-> "InvalidConfiguration"]

\* the constructor has returned a stage of thrust > 0 and Isp > 0
PositiveStage ==
    pc = "constructed" /\ FGt(args.Thrust, FZero) /\ FGt(args.Isp, FZero)

\* m * Isp * 9.81 / Thrust: the time the flow Thrust/(Isp*9.81) takes to
\* burn the mass m
ClosedFormBurnTime(m) == FDiv(FMul(FMul(m, args.Isp), G0), args.Thrust)

\* C2 as the claim has it: mdot is Thrust/(Isp*9.81) and tb is
\* Mp*Isp*9.81/Thrust, so that tb * mdot is Mp
C2_BurnTimeFromMp ==
    PositiveStage =>
        /\ ret.mdot = FDiv(args.Thrust, FMul(args.Isp, G0))
        /\ Close(ret.tb, ClosedFormBurnTime(args.Mp))
        /\ Close(FMul(ret.tb, ret.mdot), args.Mp)

\* C2: for thrust > 0 and Isp > 0, mdot is Thrust/(Isp*9.81) and tb is
\* Mf*Isp*9.81/Thrust but for the rounding, so that tb * mdot is Mf; Ms and
\* Mp have no part in either
C2_BurnTimeFromMf ==
    PositiveStage =>
        /\ ret.mdot = FDiv(args.Thrust, FMul(args.Isp, G0))
        /\ Close(ret.tb, ClosedFormBurnTime(args.Mf))
        /\ Close(FMul(ret.tb, ret.mdot), args.Mf)

\* a stage of thrust > 0 and Isp > 0 whose Mf, Mp and 0 all differ
C2_StageWithFuelAndPayload ==
    /\ PositiveStage
    /\ args.Mf # args.Mp /\ ~IsZero(args.Mf) /\ ~IsZero(args.Mp)
    /\ FGt(ret.tb, FZero)

---------------------------------------------------------------------------
(* Stage.GetDrag: properties of SpecDrag                                   *)

\* the widest step the claim allows at a breakpoint: 1e-3
Tolerance == Dec(1, 3)

\* the value at M of the regime that begins just above the breakpoint M
RegimeAbove(M) ==
    IF M = Mach125 THEN CdSupersonic(M)
    ELSE IF M = Mach4 THEN CdHypersonic(M)
    ELSE CdFlat

\* C3: at a Mach number of 1.25, 4 or 10 the drag coefficient of the call,
\* which is that of the regime ending there, is within 1e-3 of the value of
\* the regime that begins above
C3_ContinuousAtBreakpoints ==
    (pc = "GetDragReturned" /\ ret.M \in {Mach125, Mach4, Mach10}) =>
        FLe(FAbs(FSub(ret.Cd, RegimeAbove(ret.M))), Tolerance)

---------------------------------------------------------------------------
(* EqOfM and euler: properties of Spec                                     *)

\* the time of the loop's turn i, the one that reads row i
TimeOfTurn(i) == IF i = 0 THEN args.t0 ELSE T_array[i]

\* a turn of the loop has written its row: Last is the row it read
TurnDone == pc \in {"loop", "returned"} /\ n >= 1
Last == n - 1

\* the mass and the thrust magnitude of the stage the time t selects
MassAt(t1) ==
    IF FLe(t1, stages[1].tb)
    THEN FSub(stages[1].M, FMul(stages[1].mdot, t1))
    ELSE FSub(stages[2].M, FMul(stages[2].mdot, FSub(t1, stages[1].tb)))

ThrustAt(t1) == IF FLe(t1, stages[1].tb) THEN stages[1].Thrust ELSE stages[2].Thrust

\* row i + 1 of a velocity column: row i and dt times the acceleration
\* thrust/M - drag/M + gravity of the turn i
Accelerated(v, thrust, drag, M, g) ==
    FAdd(v, FMul(args.dt, FAdd(FSub(FDiv(thrust, M), FDiv(drag, M)), g)))

\* C4: the turn at time t has the mass and the thrust magnitude of stage 1
\* when t <= stage1.tb and of stage 2 when t > stage1.tb, and the row it
\* writes is the row it read plus dt times the derivative
C4_StageSwitch ==
    TurnDone =>
        /\ v_states[Last][5] = MassAt(TimeOfTurn(Last))
        /\ Close(Hypot(v_states[Last][1], v_states[Last][2]), ThrustAt(TimeOfTurn(Last)))
        /\ X[n] = FAdd(X[Last], FMul(args.dt, Vx[Last]))
        /\ Y[n] = FAdd(Y[Last], FMul(args.dt, Vy[Last]))
        /\ Vx[n] = Accelerated(Vx[Last], v_states[Last][1], v_states[Last][3],
                               v_states[Last][5], Gravity(X[Last], X[Last], Y[Last]))
        /\ Vy[n] = Accelerated(Vy[Last], v_states[Last][2], v_states[Last][4],
                               v_states[Last][5], Gravity(Y[Last], X[Last], Y[Last]))

\* the turn at t = stage1.tb exactly and the turn after it are both done
C4_SwitchCrossed ==
    /\ TurnDone /\ n >= 2
    /\ TimeOfTurn(Last - 1) = stages[1].tb
    /\ FGt(TimeOfTurn(Last), stages[1].tb)
    /\ v_states[Last - 1][5] # v_states[Last][5]

\* C5: the time column starts at t0, each row is the row before plus dt, and
\* every row is below Tf
C5_TimeColumn ==
    pc = "returned" =>
        /\ ret.STATEF[0][1] = args.t0
        /\ \A i \in 0..(steps - 1) : ret.STATEF[i + 1][1] = FAdd(ret.STATEF[i][1], args.dt)
        /\ \A i \in 0..steps : FLt(ret.STATEF[i][1], args.Tf)

\* the state row i of the returned table
StateRow(i) == <<ret.STATEF[i][2], ret.STATEF[i][3], ret.STATEF[i][4], ret.STATEF[i][5]>>

\* C6: euler returns two tables of steps + 1 rows; row 0 is the initial
\* state; the diagnostic row i < steps is the one EqOfM returns at the state
\* row i and the time t0 + i * dt, and the last diagnostic row is zero
C6_AlignedTables ==
    /\ pc # "IndexError"
    /\ pc = "returned" =>
        /\ DOMAIN ret.STATEF = 0..steps /\ DOMAIN ret.v_states = 0..steps
        /\ StateRow(0) = args.STATE0
        /\ \A i \in 0..(steps - 1) :
               ret.v_states[i]
                   = EqOfM(StateRow(i), FAdd(args.t0, FMul(FInt(i), args.dt)), stages).v_state
        /\ ret.v_states[steps] = ZeroRow

\* C7: the loop body runs exactly steps times, no store has an index above
\* steps, and the notice of a turn below the ground stops nothing
C7_RunsStepsTimes ==
    /\ pc # "IndexError"
    /\ n <= steps
    /\ pc = "returned" => n = steps

\* the altitude of row i
AltitudeOfRow(i) == FSub(Hypot(X[i], Y[i]), Re)

\* the thrust angle the rule of the claim gives from t, h and phi
PsiOfRule(t1, h, phi) ==
    IF FLt(t1, FAdd(stages[1].tb, FInt(300))) /\ FGt(h, FInt(100))
    THEN (IF AngleGt(phi, Deg83) THEN Deg87 ELSE phi)
    ELSE Deg90

\* the thrust components of magnitude TT along psi
ThrustAlong(TT, psi) == <<FMul(TT, psi.c), FMul(TT, psi.s)>>

\* C8: the thrust of a turn points along 87 degrees or along phi inside the
\* window t < stage1.tb + 300, h > 100, as phi is above 83 degrees or not,
\* and along 90 degrees outside the window
C8_ThrustAngleRule ==
    TurnDone =>
        <<v_states[Last][1], v_states[Last][2]>>
            = ThrustAlong(ThrustAt(TimeOfTurn(Last)),
                          PsiOfRule(TimeOfTurn(Last), AltitudeOfRow(Last), v_states[Last][6]))

\* a turn inside the window with phi above 83 degrees is done: its thrust
\* points along 87 degrees
C8_KickTurn ==
    /\ TurnDone
    /\ FLt(TimeOfTurn(Last), FAdd(stages[1].tb, FInt(300)))
    /\ FGt(AltitudeOfRow(Last), FInt(100))
    /\ AngleGt(v_states[Last][6], Deg83)
    /\ v_states[Last][1] = FMul(ThrustAt(TimeOfTurn(Last)), Deg87.c)

\* C9: no step of euler changes the stage objects or the arguments of the
\* call, and a turn of the loop leaves the state row it read as it was
C9_InputsUnmodified ==
    [][/\ stages' = stages
       /\ args' = args
       /\ (pc = "loop" /\ pc' = "loop") =>
              <<X'[n], Y'[n], Vx'[n], Vy'[n]>> = <<X[n], Y[n], Vx[n], Vy[n]>>]_vars

\* euler has returned after two turns or more with the stages and the
\* initial state it was called with
C9_RunReturned ==
    /\ pc = "returned" /\ n >= 2
    /\ stages \in StagePairs
    /\ <<X[0], Y[0], Vx[0], Vy[0]>> = args.STATE0

---------------------------------------------------------------------------
(* The run of main(): properties of SpecMain                               *)

\* C10: in the run of main() the mass of every turn is above 0, and in a
\* turn of stage 1 it is stage1.Ms + stage1.Mp or more
C10_MassPositive ==
    TurnDone =>
        /\ FGt(v_states[Last][5], FZero)
        /\ FLe(TimeOfTurn(Last), stages[1].tb)
               => FLe(FAdd(stages[1].Ms, stages[1].Mp), v_states[Last][5])
        /\ FGt(TimeOfTurn(Last), stages[1].tb)
               => /\ FLt(TimeOfTurn(Last), FAdd(stages[1].tb, FInt(300)))
                  /\ FGt(FSub(stages[2].M,
                              FMul(stages[2].mdot, FSub(TimeOfTurn(Last), stages[1].tb))),
                         FZero)

\* the first turn of stage 2 in the run of main() is done, the turn before
\* it being the last of stage 1
C10_SecondStageTurn ==
    /\ TurnDone /\ n >= 2
    /\ stages = <<Falcon9S1, Falcon9S2>>
    /\ FLe(TimeOfTurn(Last - 1), stages[1].tb)
    /\ FGt(TimeOfTurn(Last), stages[1].tb)
    /\ v_states[Last][5] = FSub(stages[2].M, FMul(stages[2].mdot, FSub(TimeOfTurn(Last), stages[1].tb)))

====
